---- MODULE Spec2Model ----
(***************************************************************************)
(* A model of clformat: the Decimal digit iterator (clformat/src/decimal.rs *)
(* and num.rs), the control-string parser (clformat-macro/src/parse.rs)    *)
(* and the code that the clformat! macro generates for a directive tree    *)
(* (clformat-macro/src/format_input.rs).                                   *)
(*                                                                         *)
(* Characters are one-character strings, text is a sequence of them.       *)
(***************************************************************************)
EXTENDS Integers, Sequences, FiniteSets, TLC

VARIABLES
    overflow_checks, \* build profile: TRUE = overflow panics, FALSE = wraps
    dargs,           \* the arguments given to Decimal::new
    decimal,         \* the Decimal struct
    dstatus,         \* "args" | "iter" | "done" | "panic"
    dout,            \* the characters the iterator has yielded so far
    pieces,          \* the pieces the control string is written with
    control,         \* the control string
    pstatus,         \* "input" | "parsed" | "idle"
    presult,         \* what parse_string returned
    args,            \* the values of the macro call's argument expressions
    code,            \* the statements the macro generated
    pc,              \* the statement to execute next
    iters,           \* the __formatcl_iteration bindings: elements not yet taken
    rulers,          \* the __formatcl_ruler bindings: Ruler.length
    sink,            \* the text written to the output
    rstatus,         \* "call" | "running" | "done" | "panic" | "compile_error" | "idle"
                     \* | "sink_error" | "err" | "oh_no"
    failed,          \* history: a write to the output has returned Err
    pass             \* history: the values each pass of the current Align evaluated

dvars == <<overflow_checks, dargs, decimal, dstatus, dout>>
pvars == <<pieces, control, pstatus, presult>>
rvars == <<args, code, pc, iters, rulers, sink, rstatus, failed, pass>>

vars == <<dvars, pvars, rvars>>

None == "None"

NotParsed == [ok |-> FALSE, err |-> [kind |-> "not parsed"]]

ParseIdle ==
    /\ pieces = <<>>
    /\ control = <<>>
    /\ pstatus = "idle"
    /\ presult = NotParsed

NoPass == [ruler |-> <<>>, writer |-> <<>>, mark |-> <<>>]

RenderIdle ==
    /\ args = <<>>
    /\ code = <<>>
    /\ pc = 0
    /\ iters = <<>>
    /\ rulers = <<>>
    /\ sink = <<>>
    /\ rstatus = "idle"
    /\ failed = FALSE
    /\ pass = NoPass

(***************************************************************************)
(* Machine integers.  isize and usize are W bits wide.                     *)
(***************************************************************************)
W == 8
MaxColumns == 6
MaxInterval == 3

UsizeMod == 2 ^ W
IsizeMin == -(2 ^ (W - 1))
IsizeMax == (2 ^ (W - 1)) - 1

\* Rust's `/` and `%` on signed integers truncate towards zero.
TruncDiv(a, b) == IF a >= 0 THEN a \div b ELSE -((-a) \div b)
TruncRem(a, b) == a - (b * TruncDiv(a, b))

\* isize::abs: overflows for isize::MIN (the wrapped result is isize::MIN).
AbsOverflows(a) == a = IsizeMin
abs(a) == IF a = IsizeMin THEN IsizeMin ELSE IF a < 0 THEN -a ELSE a

\* isize::unsigned_abs never overflows.
unsigned_abs(a) == IF a < 0 THEN -a ELSE a

\* `self as isize`: a value of an unsigned type above isize::MAX wraps.
as_isize(number) == IF number > IsizeMax THEN number - UsizeMod ELSE number

\* Num::divide_by: `self as isize / divisor`.
divide_by(number, d) == TruncDiv(as_isize(number), d)

DigitChars == <<"0", "1", "2", "3", "4", "5", "6", "7", "8", "9">>
\* core::char::from_digit(d, 10)
from_digit(d) == DigitChars[d + 1]

(***************************************************************************)
(* fn divisor(number) -> (divisor, count): the loop of decimal.rs:19-28.   *)
(* `overflow` records an arithmetic overflow (abs of isize::MIN, or the    *)
(* multiplication by ten leaving the isize range).                         *)
(***************************************************************************)
RECURSIVE divisor_loop(_, _, _, _)
divisor_loop(number, div, count, ovf) ==
    LET q == divide_by(number, div)
    IN IF abs(q) >= 10
       THEN IF div * 10 > IsizeMax
            THEN [divisor |-> div, count |-> count, overflow |-> TRUE]
            ELSE divisor_loop(number, div * 10, count + 1, ovf \/ AbsOverflows(q))
       ELSE [divisor |-> div, count |-> count, overflow |-> ovf \/ AbsOverflows(q)]

\* A divisor that starts at ten, with two digits.
divisor_from_ten(number) == divisor_loop(number, 10, 2, FALSE)

divisor(number) == divisor_loop(number, 1, 1, FALSE)

(***************************************************************************)
(* Decimal::new, decimal.rs:31-74.  `panic` is set when the construction   *)
(* overflows and the build checks overflow; without the checks the usize   *)
(* subtraction wraps modulo 2^W.                                           *)
(***************************************************************************)
DecimalNew(checks, min_columns, pad_char, comma_char, comma_interval, print_commas, print_sign, number) ==
    LET dv == divisor(number)
        digits == dv.count
        columns == (IF number < 0 \/ print_sign THEN digits + 1 ELSE digits)
                   + (IF print_commas THEN (digits - 1) \div comma_interval ELSE 0)
        underflow == min_columns > digits /\ min_columns < columns
        pad == IF min_columns > digits
               THEN (min_columns - columns) % UsizeMod
               ELSE 0
    IN [ panic |-> checks /\ (dv.overflow \/ underflow),
         self |-> [ number |-> number,
                    pad_char |-> pad_char,
                    comma_char |-> comma_char,
                    comma_interval |-> comma_interval,
                    divisor |-> dv.divisor,
                    digits |-> digits,
                    print_commas |-> print_commas,
                    printed_comma |-> TRUE,
                    print_sign |-> print_sign,
                    printed_sign |-> FALSE,
                    pad |-> pad ] ]

\* A next() that yields the sign before the pad characters.
DecimalNext_sign_first(self) ==
    IF self.divisor = 0 THEN [item |-> None, self |-> self]
    ELSE
      LET s1 == [self EXCEPT !.printed_sign = TRUE]
          sign == IF self.printed_sign THEN None
                  ELSE IF self.number > 0
                       THEN (IF self.print_sign THEN "+" ELSE None)
                       ELSE "-"
      IN IF sign # None THEN [item |-> sign, self |-> s1]
         ELSE IF s1.pad > 0
         THEN [item |-> s1.pad_char, self |-> [s1 EXCEPT !.pad = @ - 1]]
         ELSE IF /\ s1.print_commas
                 /\ s1.digits % s1.comma_interval = 0
                 /\ s1.divisor # 1
                 /\ ~s1.printed_comma
         THEN [item |-> s1.comma_char, self |-> [s1 EXCEPT !.printed_comma = TRUE]]
         ELSE
           LET digit == TruncRem(divide_by(s1.number, s1.divisor), 10)
           IN [item |-> from_digit(unsigned_abs(digit)),
               self |-> [s1 EXCEPT !.printed_comma = FALSE,
                                   !.divisor = @ \div 10,
                                   !.digits = @ - 1]]

(***************************************************************************)
(* Iterator::next for Decimal, decimal.rs:80-116: the item (None at the    *)
(* end) and the struct afterwards.                                         *)
(***************************************************************************)
DecimalNext(self) ==
    IF self.divisor = 0 THEN [item |-> None, self |-> self]
    ELSE IF self.pad > 0
    THEN [item |-> self.pad_char, self |-> [self EXCEPT !.pad = @ - 1]]
    ELSE
      LET s1 == [self EXCEPT !.printed_sign = TRUE]
          sign == IF self.printed_sign THEN None
                  ELSE IF self.number > 0
                       THEN (IF self.print_sign THEN "+" ELSE None)
                       ELSE "-"
      IN IF sign # None THEN [item |-> sign, self |-> s1]
         ELSE IF /\ s1.print_commas
                 /\ s1.digits % s1.comma_interval = 0
                 /\ s1.divisor # 1
                 /\ ~s1.printed_comma
         THEN [item |-> s1.comma_char, self |-> [s1 EXCEPT !.printed_comma = TRUE]]
         ELSE
           LET digit == TruncRem(divide_by(s1.number, s1.divisor), 10)
           IN [item |-> from_digit(unsigned_abs(digit)),
               self |-> [s1 EXCEPT !.printed_comma = FALSE,
                                   !.divisor = @ \div 10,
                                   !.digits = @ - 1]]

(***************************************************************************)
(* The Decimal machine: construct, then drain with next() as               *)
(* `collect::<String>()` and the generated `for` loop do.                  *)
(***************************************************************************)
PadChars == {"_"}
CommaChars == {","}
\* The numbers of isize up to MaxMagnitude in absolute value, and those at
\* the two ends of the type.
MaxMagnitude == 127
Numbers ==
    { n \in IsizeMin .. IsizeMax : (-MaxMagnitude <= n /\ n <= MaxMagnitude) \/ n \in {IsizeMin, IsizeMin + 1, IsizeMax} }
\* Some values of usize that isize does not have, the least and the
\* greatest among them; the values up to isize::MAX are in Numbers.
UnsignedNumbers == {IsizeMax + 1, UsizeMod - 56, UsizeMod - 1}

NoDecimal == [divisor |-> 0]

DecimalIdle ==
    /\ overflow_checks = FALSE
    /\ dargs = [number |-> 0]
    /\ decimal = NoDecimal
    /\ dstatus = "idle"
    /\ dout = <<>>

DecimalInit ==
    /\ overflow_checks \in BOOLEAN
    /\ dargs \in [ min_columns : 0 .. MaxColumns,
                   pad_char : PadChars,
                   comma_char : CommaChars,
                   comma_interval : 1 .. MaxInterval,
                   print_commas : BOOLEAN,
                   print_sign : BOOLEAN,
                   number : Numbers \cup UnsignedNumbers ]
    /\ decimal = NoDecimal
    /\ dstatus = "args"
    /\ dout = <<>>

DecimalConstruct ==
    /\ dstatus = "args"
    /\ LET r == DecimalNew(overflow_checks, dargs.min_columns, dargs.pad_char,
                           dargs.comma_char, dargs.comma_interval,
                           dargs.print_commas, dargs.print_sign, dargs.number)
       IN IF r.panic
          THEN /\ dstatus' = "panic"
               /\ UNCHANGED decimal
          ELSE /\ dstatus' = "iter"
               /\ decimal' = r.self
    /\ UNCHANGED <<overflow_checks, dargs, dout>>
    /\ UNCHANGED <<pvars, rvars>>

DecimalStep ==
    /\ dstatus = "iter"
    /\ LET r == DecimalNext(decimal)
       IN /\ decimal' = r.self
          /\ IF r.item = None
             THEN /\ dstatus' = "done"
                  /\ UNCHANGED dout
             ELSE /\ dstatus' = "iter"
                  /\ dout' = Append(dout, r.item)
    /\ UNCHANGED <<overflow_checks, dargs>>
    /\ UNCHANGED <<pvars, rvars>>

DecimalNextAction == DecimalConstruct \/ DecimalStep

\* Only the Decimal is in use.
DecimalAlone == DecimalInit /\ ParseIdle /\ RenderIdle

SpecDecimal == DecimalAlone /\ [][DecimalNextAction]_vars

(***************************************************************************)
(* What the claims about Decimal speak of.                                 *)
(***************************************************************************)
Max(a, b) == IF a >= b THEN a ELSE b

Range(f) == { f[i] : i \in DOMAIN f }

CountOf(s, c) == Cardinality({i \in 1 .. Len(s) : s[i] = c})

\* The number of leading elements of s that equal c.
LeadingCount(s, c) ==
    IF \A i \in 1 .. Len(s) : s[i] = c THEN Len(s)
    ELSE (CHOOSE i \in 1 .. Len(s) : s[i] # c /\ \A j \in 1 .. (i - 1) : s[j] = c) - 1

\* The base-10 digits of a natural number, most significant first.
RECURSIVE Base10(_)
Base10(v) == IF v < 10 THEN <<from_digit(v)>>
             ELSE Append(Base10(v \div 10), from_digit(v % 10))

\* Digits ds with separator c before every digit that starts a group of k
\* counted from the least-significant end, never before the first digit.
RECURSIVE GroupFrom(_, _, _, _)
GroupFrom(ds, k, c, i) ==
    IF i > Len(ds) THEN <<>>
    ELSE (IF i > 1 /\ (Len(ds) - i + 1) % k = 0 THEN <<c>> ELSE <<>>)
         \o <<ds[i]>> \o GroupFrom(ds, k, c, i + 1)

Grouped(ds, k, c) == GroupFrom(ds, k, c, 1)

Magnitude(n) == IF n < 0 THEN -n ELSE n

\* dout without its pad characters and sign characters.
DecimalBody == SelectSeq(dout, LAMBDA ch : ch \notin {dargs.pad_char, "+", "-"})

\* The columns actually emitted for the sign, the digits and the separators.
EmittedColumns == Len(dout) - LeadingCount(dout, dargs.pad_char)

DecimalEnded == dstatus \in {"done", "panic"}

\* C2: the Decimal sequence starts with exactly max(0, min_columns - C) pad
\* characters, C being the columns of the sign, the digits and the separators
\* emitted, so the output is max(min_columns, C) long, also when min_columns
\* lies strictly between the digit count and C.  Stated for the numbers and
\* intervals on which no other defect of the iterator interferes: n is
\* neither zero nor isize::MIN, and the interval is at least two.
C2_PadCount ==
    ( /\ DecimalEnded
      /\ dargs.number \notin {0, IsizeMin}
      /\ dargs.comma_interval >= 2 )
    => /\ dstatus = "done"
       /\ LeadingCount(dout, dargs.pad_char)
            = Max(0, dargs.min_columns - EmittedColumns)
       /\ Len(dout) = Max(dargs.min_columns, EmittedColumns)

\* C3: the sequence holds exactly one `-` when n < 0, exactly one `+` when
\* n > 0 and print_sign is set, and no sign character in every other case,
\* in particular for n = 0.
C3_SignCharacter ==
    (dstatus = "done" /\ dargs.number # IsizeMin)
    => /\ CountOf(dout, "-") = (IF dargs.number < 0 THEN 1 ELSE 0)
       /\ CountOf(dout, "+") = (IF dargs.number > 0 /\ dargs.print_sign THEN 1 ELSE 0)

\* C4: with print_commas and interval k >= 1 a number of d digits gets
\* exactly floor((d-1)/k) separators, each comma_char, one before every
\* digit whose distance to the least-significant end is a positive multiple
\* of k (never before the first digit); without print_commas none.
C4_Separators ==
    (dstatus = "done" /\ dargs.number # IsizeMin)
    => LET ds == Base10(Magnitude(dargs.number))
       IN IF dargs.print_commas
          THEN /\ CountOf(dout, dargs.comma_char)
                    = (Len(ds) - 1) \div dargs.comma_interval
               /\ DecimalBody = Grouped(ds, dargs.comma_interval, dargs.comma_char)
          ELSE CountOf(dout, dargs.comma_char) = 0

\* C23: what the Decimal has yielded is at every moment some pad
\* characters, then at most one sign, then digits and separators: a pad
\* character or a sign comes only directly after a pad character or at the
\* start; once next() has returned None it returns None again and leaves
\* the Decimal as it is.
C23_DecimalOrder ==
    /\ \A j \in 2 .. Len(dout) :
          dout[j] \in {dargs.pad_char, "+", "-"} => dout[j - 1] = dargs.pad_char
    /\ Len(dout) <= UsizeMod + W
    /\ dstatus = "done"
       => /\ DecimalNext(decimal).item = None
          /\ DecimalNext(decimal).self = decimal
          /\ Len(dout) > 0 /\ dout[Len(dout)] \in Range(DigitChars)

\* -5 in four columns was drained: two pad characters, the sign, the digit.
C23_Witness ==
    /\ dstatus = "done"
    /\ dout = <<"_", "_", "-", "5">>

\* dout without pad characters, sign characters and separators.
DecimalDigits == SelectSeq(dout, LAMBDA ch : ch \notin {dargs.pad_char, dargs.comma_char, "+", "-"})

\* C26: for a number n other than isize::MIN the digit count d computed at
\* construction has 10^(d-1) <= |n| < 10^d (d = 1 for 0) and the divisor is
\* 10^(d-1); what a drained Decimal has yielded is, without pad characters,
\* sign and separators, the base-10 digits of |n|, most significant first,
\* without a leading zero.
C26_DecimalDigits ==
    (dstatus \in {"iter", "done", "panic"} /\ dargs.number \in Numbers /\ dargs.number # IsizeMin)
    => LET n == Magnitude(dargs.number)
           dv == divisor(dargs.number)
       IN /\ ~dv.overflow
          /\ dv.divisor = 10 ^ (dv.count - 1)
          /\ IF n = 0 THEN dv.count = 1 ELSE dv.divisor <= n /\ n < 10 * dv.divisor
          /\ dstatus = "done"
             => /\ DecimalDigits = Base10(n)
                /\ Len(DecimalDigits) = dv.count
                /\ n # 0 => DecimalDigits[1] # "0"

\* -105 was drained with separators, a sign and pad characters around its
\* three digits.
C26_Witness ==
    /\ dstatus = "done"
    /\ dargs.number = -105
    /\ DecimalDigits = <<"1", "0", "5">>
    /\ Len(dout) > 4

\* C27: a drained Decimal of an unsigned value v, the values above
\* isize::MAX included, has yielded the base-10 digits of v and no `-`.
C27_UnsignedDigits ==
    (dstatus = "done" /\ dargs.number >= 0)
    => /\ DecimalDigits = Base10(dargs.number)
       /\ CountOf(dout, "-") = 0

\* C29: for every number of the signed machine integer type the digit
\* count and the divisor are computed without arithmetic overflow; the
\* divisor for isize::MAX does not exceed it; isize::MIN, asked for no
\* columns, is drained to `-` and the digits of 2^(W-1).
C29_NoOverflow ==
    (dstatus \in {"iter", "done", "panic"} /\ dargs.number \in Numbers)
    => /\ ~divisor(dargs.number).overflow
       /\ dargs.number = IsizeMax => divisor(dargs.number).divisor <= dargs.number
       /\ (dargs.number = IsizeMin /\ dargs.min_columns = 0 /\ DecimalEnded)
          => /\ dstatus = "done"
             /\ DecimalDigits = Base10(2 ^ (W - 1))
             /\ dout[1] = "-"

(***************************************************************************)
(* The parser, clformat-macro/src/parse.rs.  A parser takes the remaining  *)
(* input and gives Ok(rest, value) or an error; as in nom, an alternative  *)
(* that fails hands the input to the next one, and `alt` reports the error *)
(* of its last alternative (FormatError keeps nom's default `or`).         *)
(***************************************************************************)
Ok(rest, val) == [ok |-> TRUE, rest |-> rest, val |-> val]
\* ErrorType::Nom, shown as "internal error".
ErrNom == [ok |-> FALSE, err |-> [kind |-> "internal error"]]
\* ErrorType::Ours(message).
ErrOurs(msg) == [ok |-> FALSE, err |-> msg]

InvalidDirective(c) == [kind |-> "invalid directive", letter |-> c]
\* (the message without its backquotes)
BreakOutsideLoop == [kind |-> "directive ^ not inside loop"]
BooleanSections == [kind |-> "boolean conditional must specify exactly two sections"]
ConsumeSections == [kind |-> "consume conditional must specify exactly one section"]
OnlyLastDefault == [kind |-> "only the last conditional can be default"]
ExpectedNumber == [kind |-> "expected number, found char"]
ExpectedCharacter == [kind |-> "expected character, found number"]
NotSupported == [kind |-> "parameter not supported for floats"]

StartsWith(input, pre) == Len(input) >= Len(pre) /\ SubSeq(input, 1, Len(pre)) = pre
Drop(input, n) == SubSeq(input, n + 1, Len(input))

\* The length of the longest prefix of input whose characters are all in S.
PrefixLen(input, S) ==
    IF \A i \in 1 .. Len(input) : input[i] \in S THEN Len(input)
    ELSE (CHOOSE i \in 1 .. Len(input) : input[i] \notin S /\ \A j \in 1 .. (i - 1) : input[j] \in S) - 1

Digits == {"0", "1", "2", "3", "4", "5", "6", "7", "8", "9"}
DigitValue(c) == CHOOSE d \in 0 .. 9 : DigitChars[d + 1] = c

\* str::parse::<isize> of a run of digits.
RECURSIVE ParseNum(_)
ParseNum(ds) == IF Len(ds) = 0 THEN 0
                ELSE (10 * ParseNum(SubSeq(ds, 1, Len(ds) - 1))) + DigitValue(ds[Len(ds)])

\* char::to_ascii_uppercase
Lower == <<"a", "d", "f", "s", "z">>
Upper == <<"A", "D", "F", "S", "Z">>
to_ascii_uppercase(c) ==
    IF \E i \in 1 .. Len(Lower) : Lower[i] = c
    THEN Upper[CHOOSE i \in 1 .. Len(Lower) : Lower[i] = c]
    ELSE c

StateNormal == "Normal"
StateLoop == "Loop"

AlignLeft == "Left"
AlignRight == "Right"
AlignCentre == "Centre"

\* impl From<Modifiers> for Alignment
\* A direction that takes the at modifier alone for Right.
AlignmentFrom_at_right(m) ==
    IF m.colon /\ m.at THEN AlignCentre
    ELSE IF m.colon \/ m.at THEN AlignRight
    ELSE AlignLeft

AlignmentFrom(m) ==
    IF m.colon /\ m.at THEN AlignCentre
    ELSE IF m.colon THEN AlignRight
    ELSE AlignLeft

NoDefault == [some |-> FALSE]
SomeDefault(d) == [some |-> TRUE, val |-> d]

\* fn literal: take_till1(|c| c == '~')
literal(input) ==
    LET n == IF \A i \in 1 .. Len(input) : input[i] # "~" THEN Len(input)
             ELSE (CHOOSE i \in 1 .. Len(input) : input[i] = "~" /\ \A j \in 1 .. (i - 1) : input[j] # "~") - 1
    IN IF n = 0 THEN ErrNom
       ELSE Ok(Drop(input, n), [type |-> "Literal", text |-> SubSeq(input, 1, n)])

ParamChar(c) == [t |-> "Char", c |-> c]
ParamNum(n) == [t |-> "Num", n |-> n]
ParamMissing == [t |-> "Missing"]

\* fn param: a quoted character, a run of digits, or nothing (Missing).
param(input) ==
    IF Len(input) >= 2 /\ input[1] = "'"
    THEN Ok(Drop(input, 2), ParamChar(input[2]))
    ELSE LET n == PrefixLen(input, Digits)
         IN IF n >= 1 THEN Ok(Drop(input, n), ParamNum(ParseNum(SubSeq(input, 1, n))))
            ELSE Ok(input, ParamMissing)

\* A list that keeps no place for an empty slot.
RECURSIVE params_rest_compact(_, _)
params_rest_compact(input, res) ==
    IF Len(input) >= 1 /\ input[1] = ","
    THEN LET r == param(Drop(input, 1))
         IN params_rest_compact(r.rest, IF r.val = ParamMissing THEN res ELSE Append(res, r.val))
    ELSE Ok(input, res)

\* separated_list0(tag(","), param) after its first element.
RECURSIVE params_rest(_, _)
params_rest(input, res) ==
    IF Len(input) >= 1 /\ input[1] = ","
    THEN LET r == param(Drop(input, 1))
         IN params_rest(r.rest, Append(res, r.val))
    ELSE Ok(input, res)

\* fn params
params(input) ==
    LET r == param(input)
    IN params_rest(r.rest, <<r.val>>)

\* Params::get_num, Params::get_char, Params::assert_missing (index from 0).
get_num(parsed, idx, def) ==
    IF idx + 1 > Len(parsed) THEN [ok |-> TRUE, val |-> def]
    ELSE IF parsed[idx + 1].t = "Char" THEN [ok |-> FALSE, err |-> ExpectedNumber]
    ELSE IF parsed[idx + 1].t = "Num" THEN [ok |-> TRUE, val |-> parsed[idx + 1].n]
    ELSE [ok |-> TRUE, val |-> def]

get_char(parsed, idx, def) ==
    IF idx + 1 > Len(parsed) THEN [ok |-> TRUE, val |-> def]
    ELSE IF parsed[idx + 1].t = "Num" THEN [ok |-> FALSE, err |-> ExpectedCharacter]
    ELSE IF parsed[idx + 1].t = "Char" THEN [ok |-> TRUE, val |-> parsed[idx + 1].c]
    ELSE [ok |-> TRUE, val |-> def]

assert_missing(parsed, idx) ==
    IF idx + 1 > Len(parsed) \/ parsed[idx + 1].t = "Missing" THEN [ok |-> TRUE]
    ELSE [ok |-> FALSE, err |-> NotSupported]

\* fn modifiers: take_while(':' or '@'), then `contains`.
modifiers(input) ==
    LET n == PrefixLen(input, {":", "@"})
        taken == SubSeq(input, 1, n)
    IN Ok(Drop(input, n), [colon |-> \E i \in 1 .. n : taken[i] = ":",
                           at |-> \E i \in 1 .. n : taken[i] = "@"])

\* The closure of fn directive: the directive a letter stands for.
directive_match(state, parsed, mods, c) ==
    IF c = "A" THEN [ok |-> TRUE, val |-> [type |-> "TildeA"]]
    ELSE IF c = "S" THEN [ok |-> TRUE, val |-> [type |-> "TildeS"]]
    ELSE IF c = "D" THEN
        LET min_columns == get_num(parsed, 0, 0)
            pad_char == get_char(parsed, 1, " ")
            comma_char == get_char(parsed, 2, ",")
            comma_interval == get_num(parsed, 3, 3)
        IN IF ~min_columns.ok THEN min_columns
           ELSE IF ~pad_char.ok THEN pad_char
           ELSE IF ~comma_char.ok THEN comma_char
           ELSE IF ~comma_interval.ok THEN comma_interval
           ELSE [ok |-> TRUE,
                 val |-> [type |-> "Decimal",
                          min_columns |-> min_columns.val,
                          pad_char |-> pad_char.val,
                          comma_char |-> comma_char.val,
                          comma_interval |-> comma_interval.val,
                          print_commas |-> mods.colon,
                          print_sign |-> mods.at]]
    ELSE IF c = "F" THEN
        LET width == get_num(parsed, 0, 0)
            num_decimal_places == get_num(parsed, 1, 0)
            m2 == assert_missing(parsed, 2)
            m3 == assert_missing(parsed, 3)
            m4 == assert_missing(parsed, 4)
            pad_char == get_char(parsed, 5, " ")
        IN IF ~width.ok THEN width
           ELSE IF ~num_decimal_places.ok THEN num_decimal_places
           ELSE IF ~m2.ok THEN m2
           ELSE IF ~m3.ok THEN m3
           ELSE IF ~m4.ok THEN m4
           ELSE IF ~pad_char.ok THEN pad_char
           ELSE [ok |-> TRUE,
                 val |-> [type |-> "Float",
                          width |-> width.val,
                          num_decimal_places |-> num_decimal_places.val,
                          pad_char |-> pad_char.val]]
    ELSE IF c = "%" THEN [ok |-> TRUE, val |-> [type |-> "Newline"]]
    ELSE IF c = "*" THEN [ok |-> TRUE, val |-> [type |-> "Skip"]]
    ELSE IF c = "^" THEN
        IF state # StateLoop THEN [ok |-> FALSE, err |-> BreakOutsideLoop]
        ELSE [ok |-> TRUE, val |-> [type |-> "Break"]]
    ELSE [ok |-> FALSE, err |-> InvalidDirective(c)]

\* fn directive: map_res(preceded(tag("~"), tuple((params, modifiers, anychar))), ..)
directive(state, input) ==
    IF ~StartsWith(input, <<"~">>) THEN ErrNom
    ELSE LET p == params(Drop(input, 1))
             m == modifiers(p.rest)
         IN IF Len(m.rest) = 0 THEN ErrNom
            ELSE LET d == directive_match(state, p.val, m.val, to_ascii_uppercase(m.rest[1]))
                 IN IF d.ok THEN Ok(Drop(m.rest, 1), d.val) ELSE ErrOurs(d.err)

\* A new_conditional without its two checks.
new_conditional_unchecked(boolean, consumes, choices, default) ==
    [ok |-> TRUE,
     val |-> [type |-> "Conditional",
              boolean |-> boolean,
              consumes |-> consumes,
              choices |-> choices,
              default |-> default]]

\* Directive::new_conditional
new_conditional(boolean, consumes, choices, default) ==
    IF boolean /\ (Len(choices) # 2 \/ default.some)
    THEN [ok |-> FALSE, err |-> BooleanSections]
    ELSE IF consumes /\ (Len(choices) # 1 \/ default.some)
    THEN [ok |-> FALSE, err |-> ConsumeSections]
    ELSE [ok |-> TRUE,
          val |-> [type |-> "Conditional",
                   boolean |-> boolean,
                   consumes |-> consumes,
                   choices |-> choices,
                   default |-> default]]

\* fn params_to_align
params_to_align(parsed, mods, inner) ==
    LET min_columns == get_num(parsed, 0, 0)
        col_inc == get_num(parsed, 1, 0)
        min_pad == get_num(parsed, 2, 0)
        pad_char == get_char(parsed, 3, " ")
    IN IF ~min_columns.ok THEN min_columns
       ELSE IF ~col_inc.ok THEN col_inc
       ELSE IF ~min_pad.ok THEN min_pad
       ELSE IF ~pad_char.ok THEN pad_char
       ELSE [ok |-> TRUE,
             val |-> [type |-> "Align",
                      min_columns |-> min_columns.val,
                      col_inc |-> col_inc.val,
                      min_pad |-> min_pad.val,
                      pad_char |-> pad_char.val,
                      direction |-> AlignmentFrom(mods),
                      inner |-> inner]]

RECURSIVE segment(_, _)
RECURSIVE conditional_loop(_, _, _, _, _, _)
RECURSIVE alignment_loop(_, _, _, _)
RECURSIVE iteration_loop(_, _)

\* The loop of fn conditional, parse.rs:198-240.
conditional_loop(input, boolean, consumes, choices, current, default) ==
    IF StartsWith(input, <<"~", "]">>)
    THEN LET c == new_conditional(boolean, consumes, IF current # <<>> THEN Append(choices, current) ELSE choices, default)
         IN IF c.ok THEN Ok(Drop(input, 2), c.val) ELSE ErrOurs(c.err)
    ELSE IF Len(input) = 0
    THEN LET c == new_conditional(boolean, consumes, choices, default)
         IN IF c.ok THEN Ok(input, c.val) ELSE ErrOurs(c.err)
    ELSE IF StartsWith(input, <<"~", ";">>)
    THEN IF default.some THEN ErrOurs(OnlyLastDefault)
         ELSE conditional_loop(Drop(input, 2), boolean, consumes, Append(choices, current), <<>>, default)
    ELSE IF StartsWith(input, <<"~", ":", ";">>)
    THEN conditional_loop(Drop(input, 3), boolean, consumes, Append(choices, current), <<>>, SomeDefault(<<>>))
    ELSE LET r == segment(StateLoop, input)
         IN IF ~r.ok THEN r
            ELSE IF default.some
            THEN conditional_loop(r.rest, boolean, consumes, choices, current, SomeDefault(Append(default.val, r.val)))
            ELSE conditional_loop(r.rest, boolean, consumes, choices, Append(current, r.val), default)

\* fn conditional
conditional(input) ==
    IF ~StartsWith(input, <<"~">>) THEN ErrNom
    ELSE LET p == params(Drop(input, 1))
             m == modifiers(p.rest)
         IN IF ~StartsWith(m.rest, <<"[">>) THEN ErrNom
            ELSE conditional_loop(Drop(m.rest, 1), m.val.colon, m.val.at, <<>>, <<>>, NoDefault)

\* The loop of fn alignment, parse.rs:254-284.
alignment_loop(input, parsed, mods, result) ==
    IF StartsWith(input, <<"~", ">">>)
    THEN LET a == params_to_align(parsed, mods, result)
         IN IF a.ok THEN Ok(Drop(input, 2), a.val) ELSE ErrOurs(a.err)
    ELSE IF Len(input) = 0
    THEN LET a == params_to_align(parsed, mods, result)
         IN IF a.ok THEN Ok(input, a.val) ELSE ErrOurs(a.err)
    ELSE LET r == segment(StateLoop, input)
         IN IF ~r.ok THEN r
            ELSE alignment_loop(r.rest, parsed, mods, Append(result, r.val))

\* fn alignment
alignment(input) ==
    IF ~StartsWith(input, <<"~">>) THEN ErrNom
    ELSE LET p == params(Drop(input, 1))
             m == modifiers(p.rest)
         IN IF ~StartsWith(m.rest, <<"<">>) THEN ErrNom
            ELSE alignment_loop(Drop(m.rest, 1), p.val, m.val, <<>>)

\* An iteration loop that takes the end of the input for an error.
iteration_loop_strict(input, result) ==
    IF StartsWith(input, <<"~", "}">>)
    THEN Ok(Drop(input, 2), [type |-> "Iteration", inner |-> result])
    ELSE IF Len(input) = 0
    THEN ErrNom
    ELSE LET r == segment(StateLoop, input)
         IN IF ~r.ok THEN r
            ELSE iteration_loop(r.rest, Append(result, r.val))

\* The loop of fn iteration, parse.rs:292-304.
iteration_loop(input, result) ==
    IF StartsWith(input, <<"~", "}">>)
    THEN Ok(Drop(input, 2), [type |-> "Iteration", inner |-> result])
    ELSE IF Len(input) = 0
    THEN Ok(input, [type |-> "Iteration", inner |-> result])
    ELSE LET r == segment(StateLoop, input)
         IN IF ~r.ok THEN r
            ELSE iteration_loop(r.rest, Append(result, r.val))

\* fn iteration
iteration(input) ==
    IF ~StartsWith(input, <<"~", "{">>) THEN ErrNom
    ELSE iteration_loop(Drop(input, 2), <<>>)

\* fn segment: alt((literal, alignment, iteration, conditional, directive(state)))
segment(state, input) ==
    LET r1 == literal(input)
        r2 == alignment(input)
        r3 == iteration(input)
        r4 == conditional(input)
    IN IF r1.ok THEN r1
       ELSE IF r2.ok THEN r2
       ELSE IF r3.ok THEN r3
       ELSE IF r4.ok THEN r4
       ELSE directive(state, input)

\* fn parse_string: many_till(cut(segment(State::Normal)), eof)
RECURSIVE parse_loop(_, _)
parse_loop(input, directives) ==
    IF Len(input) = 0 THEN [ok |-> TRUE, val |-> directives]
    ELSE LET r == segment(StateNormal, input)
         IN IF ~r.ok THEN [ok |-> FALSE, err |-> r.err]
            ELSE parse_loop(r.rest, Append(directives, r.val))

parse_string(input) == parse_loop(input, <<>>)

(***************************************************************************)
(* The parser machine: a control string, written as a sequence of pieces   *)
(* (a literal character, a directive, a block opener or closer, a section  *)
(* separator), is handed to parse_string.                                  *)
(***************************************************************************)
MaxTokens == 4
MaxCondTokens == 6

BreakToken == <<"~", "^">>
InvalidToken == <<"~", "z">>

BlockTokens ==
    { <<"a">>, <<"~", "A">>, InvalidToken, BreakToken,
      <<"~", "{">>, <<"~", "}">>, <<"~", "<">>, <<"~", ">">>, <<"~", "[">>, <<"~", "]">> }

CondHeads == { <<"~", "[">>, <<"~", ":", "[">>, <<"~", "@", "[">>, <<"~", ":", "@", "[">> }

CondTokens == { <<"a">>, <<"~", ";">>, <<"~", ":", ";">>, <<"~", "]">> }

SeqsUpTo(S, n) == UNION {[1 .. k -> S] : k \in 0 .. n}

MaxSlots == 4
MaxModifiers == 2
MaxFloatSlots == 6

\* What is written in a parameter slot: nothing, a number, a character.
SlotTexts == { <<>>, <<"7">>, <<"1", "2">>, <<"'", "-">>, <<"'", ",">> }
FloatSlotTexts == { <<>>, <<"7">>, <<"'", "-">> }
ModifierSeqs == SeqsUpTo({":", "@"}, MaxModifiers)

\* The slots as pieces, a comma piece between two slots.
RECURSIVE Interleave(_)
Interleave(slots) ==
    IF Len(slots) = 0 THEN <<>>
    ELSE IF Len(slots) = 1 THEN <<slots[1]>>
    ELSE <<slots[1], <<",">> >> \o Interleave(Tail(slots))

\* ~ slots modifiers, then the pieces that follow.
DirectivePieces(slots, mods, tail) == << <<"~">> >> \o Interleave(slots) \o <<mods>> \o tail

AlignTail == << <<"<">>, <<"~", "A">>, <<"~", ">">> >>
DecimalTail == << <<"D">> >>
FloatTail == << <<"F">> >>

ParamStrings ==
    { DirectivePieces(slots, mods, AlignTail) : slots \in SeqsUpTo(SlotTexts, MaxSlots), mods \in ModifierSeqs }
    \cup { DirectivePieces(slots, <<>>, DecimalTail) : slots \in SeqsUpTo(SlotTexts, MaxSlots) }
    \cup { DirectivePieces(slots, <<>>, FloatTail) : slots \in SeqsUpTo(FloatSlotTexts, MaxFloatSlots) }

ControlStrings ==
    SeqsUpTo(BlockTokens, MaxTokens)
    \cup {<<h>> \o t : h \in CondHeads, t \in SeqsUpTo(CondTokens, MaxCondTokens)}
    \cup ParamStrings

RECURSIVE Flatten(_)
Flatten(ts) == IF Len(ts) = 0 THEN <<>> ELSE Head(ts) \o Flatten(Tail(ts))

ParseInit ==
    /\ pieces \in ControlStrings
    /\ control = Flatten(pieces)
    /\ pstatus = "input"
    /\ presult = NotParsed

\* parse_format_string(token, format_string)
ParseString ==
    /\ pstatus = "input"
    /\ presult' = parse_string(control)
    /\ pstatus' = "parsed"
    /\ UNCHANGED <<pieces, control>>
    /\ UNCHANGED <<dvars, rvars>>

\* Only the parser is in use.
ParseAlone == ParseInit /\ DecimalIdle /\ RenderIdle

SpecParse == ParseAlone /\ [][ParseString]_vars

(***************************************************************************)
(* What the claims about the parser speak of: the block structure of the   *)
(* control string as written, read off its pieces without the parser.      *)
(***************************************************************************)
Parsed == pstatus = "parsed"

IsOpener(t) == Len(t) >= 2 /\ t[1] = "~" /\ t[Len(t)] \in {"{", "<", "["}
IsCloser(t) == t \in { <<"~", "}">>, <<"~", ">">>, <<"~", "]">> }
CloserOf(c) == IF c = "{" THEN <<"~", "}">> ELSE IF c = "<" THEN <<"~", ">">> ELSE <<"~", "]">>

Mismatched == <<"!">>

\* The openers still open before piece i (innermost last); Mismatched once a
\* closer has met no opener of its kind.
RECURSIVE OpenBefore(_, _)
OpenBefore(ts, i) ==
    IF i = 1 THEN <<>>
    ELSE LET st == OpenBefore(ts, i - 1)
             t == ts[i - 1]
         IN IF st = Mismatched THEN Mismatched
            ELSE IF IsOpener(t) THEN Append(st, t[Len(t)])
            ELSE IF IsCloser(t)
            THEN IF Len(st) > 0 /\ CloserOf(st[Len(st)]) = t
                 THEN SubSeq(st, 1, Len(st) - 1)
                 ELSE Mismatched
            ELSE st

\* Every block is closed by its own closer, in order.
WellNested(ts) == OpenBefore(ts, Len(ts) + 1) = <<>>

InIteration(ts, i) == \E j \in 1 .. Len(OpenBefore(ts, i)) : OpenBefore(ts, i)[j] = "{"

BreakOutsideIteration(ts) == \E i \in 1 .. Len(ts) : ts[i] = BreakToken /\ ~InIteration(ts, i)

Has(ts, t) == \E i \in 1 .. Len(ts) : ts[i] = t

OnlyBlockTokens(ts) == \A i \in 1 .. Len(ts) : ts[i] \in BlockTokens

\* C8: a control string with a break directive that no iteration body
\* encloses (also one inside an alignment or conditional block outside every
\* iteration) fails to parse with the break-outside-loop error; with every
\* break inside an iteration body it parses.  Stated for strings with no
\* other defect: blocks well nested, no invalid directive.
C8_BreakOutsideLoop ==
    (Parsed /\ OnlyBlockTokens(pieces) /\ WellNested(pieces) /\ ~Has(pieces, InvalidToken))
    => IF BreakOutsideIteration(pieces)
       THEN ~presult.ok /\ presult.err = BreakOutsideLoop
       ELSE presult.ok

\* C9: a control string with a directive whose letter is none of A, S, D, F,
\* %, *, ^ fails to parse with the invalid-directive error naming that letter
\* (upper-cased), at the top level and inside an iteration, alignment or
\* conditional body alike.  Stated for strings with no other defect: blocks
\* well nested, no break directive.
C9_InvalidDirective ==
    (Parsed /\ OnlyBlockTokens(pieces) /\ WellNested(pieces) /\ ~Has(pieces, BreakToken) /\ Has(pieces, InvalidToken))
    => ~presult.ok /\ presult.err = InvalidDirective("Z")

\* The Conditional nodes of a directive list, at any depth.
RECURSIVE Conditionals(_)
Conditionals(ds) ==
    UNION { IF ds[i].type = "Conditional"
            THEN {ds[i]}
                 \cup UNION {Conditionals(ds[i].choices[k]) : k \in 1 .. Len(ds[i].choices)}
                 \cup (IF ds[i].default.some THEN Conditionals(ds[i].default.val) ELSE {})
            ELSE IF ds[i].type \in {"Iteration", "Align"} THEN Conditionals(ds[i].inner)
            ELSE {} : i \in 1 .. Len(ds) }

LastOpen ==
    LET st == OpenBefore(pieces, Len(pieces) + 1)
    IN IF st = Mismatched \/ Len(st) = 0 THEN "" ELSE st[Len(st)]

\* C11: a control string that ends inside an iteration or alignment block
\* parses to what the same string with the block's closer appended parses
\* to, and it parses successfully when it has no other defect (no invalid
\* directive, no break, no closer without its opener).
C11_OpenBlockAtEnd ==
    (Parsed /\ LastOpen \in {"{", "<"})
    => /\ presult = parse_string(control \o CloserOf(LastOpen))
       /\ (OnlyBlockTokens(pieces) /\ ~Has(pieces, InvalidToken) /\ ~Has(pieces, BreakToken))
          => presult.ok

\* An alignment in an iteration, both open at the end of the input, parsed.
C11_Witness ==
    /\ Parsed
    /\ presult.ok
    /\ pieces = << <<"~", "{">>, <<"a">>, <<"~", "<">>, <<"~", "A">> >>
    /\ presult.val[1].type = "Iteration"
    /\ Len(presult.val[1].inner) = 2

\* C12: a control string that ends inside a conditional block parses to
\* what the same string with ~] appended parses to: same choices in the
\* same order, the section being read at the end included, same default.
C12_OpenConditionalAtEnd ==
    (Parsed /\ LastOpen = "[")
    => presult = parse_string(control \o <<"~", "]">>)

\* The control string is ~ slots modifiers followed by `tail`.
Written(tail) ==
    /\ Len(pieces) >= Len(tail) + 2
    /\ pieces[1] = <<"~">>
    /\ SubSeq(pieces, Len(pieces) - Len(tail) + 1, Len(pieces)) = tail

\* What is written in slot i (from 0) and as modifiers of such a string;
\* nothing is written in a slot after the last comma's.
SlotAt(tail, i) ==
    IF (2 * i) + 1 <= Len(pieces) - Len(tail) - 2 THEN pieces[(2 * i) + 2] ELSE <<>>

ModifiersWritten(tail) == pieces[Len(pieces) - Len(tail)]

IsNumberText(t) == t \in { <<"7">>, <<"1", "2">> }
IsCharText(t) == Len(t) = 2 /\ t[1] = "'"
NumberOf(t) == IF t = <<"7">> THEN 7 ELSE 12

\* C13: an alignment block whose parameters parse has the direction its
\* modifiers give, whatever their order and number (colon and at: Centre,
\* colon alone: Right, otherwise Left), min_columns from slot 0 (default 0)
\* and pad_char from slot 3 (default space).
C13_AlignDirection ==
    (/\ Parsed
     /\ Written(AlignTail)
     /\ \A i \in 0 .. 2 : ~IsCharText(SlotAt(AlignTail, i))
     /\ ~IsNumberText(SlotAt(AlignTail, 3)))
    => /\ presult.ok
       /\ Len(presult.val) = 1
       /\ presult.val[1].type = "Align"
       /\ presult.val[1].direction =
            (LET m == ModifiersWritten(AlignTail)
                 colon == \E k \in 1 .. Len(m) : m[k] = ":"
                 at == \E k \in 1 .. Len(m) : m[k] = "@"
             IN IF colon /\ at THEN AlignCentre ELSE IF colon THEN AlignRight ELSE AlignLeft)
       /\ presult.val[1].min_columns =
            (IF IsNumberText(SlotAt(AlignTail, 0)) THEN NumberOf(SlotAt(AlignTail, 0)) ELSE 0)
       /\ presult.val[1].pad_char =
            (IF IsCharText(SlotAt(AlignTail, 3)) THEN SlotAt(AlignTail, 3)[2] ELSE " ")

\* ~12,,,'-@:<~A~> was parsed to a Centre alignment.
C13_Witness ==
    /\ Parsed
    /\ pieces = DirectivePieces(<< <<"1", "2">>, <<>>, <<>>, <<"'", "-">> >>, <<"@", ":">>, AlignTail)
    /\ presult.ok
    /\ presult.val[1].direction = AlignCentre
    /\ presult.val[1].min_columns = 12
    /\ presult.val[1].pad_char = "-"

\* The commas that separate the slots of ~ slots modifiers `tail`.
Commas(tail) ==
    LET n == Len(pieces) - Len(tail) - 2
    IN IF n = 0 THEN 0 ELSE (n - 1) \div 2

\* The parameter a slot's text stands for.
Decode(t) ==
    IF t = <<>> THEN ParamMissing
    ELSE IF IsCharText(t) THEN ParamChar(t[2])
    ELSE ParamNum(NumberOf(t))

NumberOr(tail, i, def) == IF IsNumberText(SlotAt(tail, i)) THEN NumberOf(SlotAt(tail, i)) ELSE def
CharOr(tail, i, def) == IF IsCharText(SlotAt(tail, i)) THEN SlotAt(tail, i)[2] ELSE def

\* C19: the parameters of ~ slots D are decoded by position: c commas give
\* c + 1 slots, each the parameter written at its place (Missing for an
\* empty one); ~D reads min_columns at 0, pad_char at 1, comma_char at 2
\* and comma_interval at 3, with the default for a Missing or absent slot,
\* and a character where a number is read, or a number where a character
\* is read, is a parse error.
C19_ParamsByPosition ==
    (Parsed /\ Written(DecimalTail))
    => LET ps == params(Drop(control, 1))
       IN /\ Len(ps.val) = Commas(DecimalTail) + 1
          /\ \A i \in 0 .. Commas(DecimalTail) : ps.val[i + 1] = Decode(SlotAt(DecimalTail, i))
          /\ IF \/ \E i \in {0, 3} : IsCharText(SlotAt(DecimalTail, i))
                \/ \E i \in {1, 2} : IsNumberText(SlotAt(DecimalTail, i))
             THEN ~presult.ok /\ presult.err \in {ExpectedNumber, ExpectedCharacter}
             ELSE /\ presult.ok
                  /\ presult.val = << [type |-> "Decimal",
                                       min_columns |-> NumberOr(DecimalTail, 0, 0),
                                       pad_char |-> CharOr(DecimalTail, 1, " "),
                                       comma_char |-> CharOr(DecimalTail, 2, ","),
                                       comma_interval |-> NumberOr(DecimalTail, 3, 3),
                                       print_commas |-> FALSE,
                                       print_sign |-> FALSE] >>

\* ~,'-,,7D was parsed: the two empty slots kept the places of the others.
C19_Witness ==
    /\ Parsed
    /\ pieces = DirectivePieces(<< <<>>, <<"'", "-">>, <<>>, <<"7">> >>, <<>>, DecimalTail)
    /\ presult.ok
    /\ presult.val[1].min_columns = 0
    /\ presult.val[1].pad_char = "-"
    /\ presult.val[1].comma_char = ","
    /\ presult.val[1].comma_interval = 7

\* C20: ~ slots F reads width at 0 and decimal places at 1; slots 2 and 3
\* are reserved, so the parse fails when one of them is written, and when
\* both are empty the pad character is the one written at 4, the place
\* directly after them (default space).
C20_FloatReservedSlots ==
    (/\ Parsed
     /\ Written(FloatTail)
     /\ \A i \in {0, 1} : ~IsCharText(SlotAt(FloatTail, i))
     /\ ~IsNumberText(SlotAt(FloatTail, 4))
     /\ \A i \in 5 .. MaxFloatSlots : SlotAt(FloatTail, i) = <<>>)
    => IF \E i \in {2, 3} : SlotAt(FloatTail, i) # <<>>
       THEN ~presult.ok
       ELSE /\ presult.ok
            /\ presult.val = << [type |-> "Float",
                                 width |-> NumberOr(FloatTail, 0, 0),
                                 num_decimal_places |-> NumberOr(FloatTail, 1, 0),
                                 pad_char |-> CharOr(FloatTail, 4, " ")] >>

(***************************************************************************)
(* The code generator, clformat-macro/src/format_input.rs.  write_         *)
(* expressions turns a directive list into Rust statements; here the       *)
(* statements are a flat instruction list with relative jumps:             *)
(*   Write     write!(w, "{}" or "{:?}", e), leaving the render on error   *)
(*   WriteStr  write!(w, <a format string without arguments>)              *)
(*   Eval      let _ = e;                                                  *)
(*   LetIter   let mut __formatcl_iteration = e.into_iter().peekable();    *)
(*   BrIfNone  if v.peek().is_none() { break }   (loop head and Break)     *)
(*   Jump      the back edge of `loop`                                     *)
(*   DecimalNew, DecimalWrite   for c in Decimal::new(..) { write!(w, c) } *)
(*   RulerNew  let mut __formatcl_ruler = Ruler::default();                *)
(*   Fill      the left_fill or right_fill of an Align                     *)
(* An expression e is an argument of the macro call (src "arg") or         *)
(* `__formatcl_iteration.next().unwrap()` (src "iter").  The names         *)
(* __formatcl_iteration and __formatcl_ruler are bound by `let`, so        *)
(* each use means the latest binding in scope where the statement stands:  *)
(* every `let` gets a number of its own, `scope` and `rscope` are the      *)
(* bindings in scope (0: none), and the bindings made inside the braces    *)
(* of a loop body end with it.  A failure of the expansion or of the       *)
(* compilation of the expanded code is ok = FALSE.                         *)
(***************************************************************************)
\* What write!(w, literal) writes: the literal is the format string, so a
\* doubled brace stands for one brace and any other brace opens or closes a
\* placeholder, for which the generated call passes no argument.
RECURSIVE FormatLiteral(_)
FormatLiteral(text) ==
    IF Len(text) = 0 THEN [ok |-> TRUE, text |-> <<>>]
    ELSE IF text[1] \in {"{", "}"}
    THEN IF Len(text) >= 2 /\ text[2] = text[1]
         THEN LET r == FormatLiteral(Drop(text, 2))
              IN IF r.ok THEN [ok |-> TRUE, text |-> <<text[1]>> \o r.text] ELSE r
         ELSE [ok |-> FALSE]
    ELSE LET r == FormatLiteral(Drop(text, 1))
         IN IF r.ok THEN [ok |-> TRUE, text |-> <<text[1]>> \o r.text] ELSE r

CompileError == [ok |-> FALSE]
Emit(stmts, st) == [ok |-> TRUE, code |-> stmts, st |-> st]

\* The writer expression where the statement stands.
WriterOf(writer, st) == IF writer = "ruler" THEN [k |-> "ruler", r |-> st.rscope] ELSE [k |-> "sink"]

\* expressions.next().expect("enough parameters"): the macro call's next
\* argument, or for IndexedExpression always the same expression.
NextExpression(st) ==
    IF st.cursor.kind = "args"
    THEN IF st.cursor.count >= st.nargs THEN [ok |-> FALSE]
         ELSE [ok |-> TRUE,
               e |-> [src |-> "arg", idx |-> st.cursor.count + 1],
               st |-> [st EXCEPT !.cursor.count = @ + 1]]
    ELSE [ok |-> TRUE,
          e |-> [src |-> "iter", v |-> st.scope],
          st |-> [st EXCEPT !.cursor.count = @ + 1]]

\* A Skip that takes no expression and generates no statement.
skip_code_nothing(writer, st) == Emit(<<>>, st)

\* Directive::Skip, format_input.rs:152-156.
skip_code(writer, st) ==
    LET x == NextExpression(st)
    IN IF ~x.ok THEN CompileError
       ELSE Emit(<<[op |-> "Eval", wk |-> writer, e |-> x.e]>>, x.st)

\* A Break that generates no statement.
break_code_nothing(writer, st) == Emit(<<>>, st)

\* Directive::Break, format_input.rs:179-186.  A `break` without a value
\* compiles only inside the `loop` of an Iteration.
break_code(writer, st) ==
    IF ~st.inloop \/ st.scope = 0 THEN CompileError
    ELSE Emit(<<[op |-> "Break", wk |-> writer, v |-> st.scope]>>, st)

\* The `loop` of an Iteration around its block: every break of the block
\* that no inner loop has taken leaves this loop.
loop_code(writer, v, e, block) ==
    <<[op |-> "LetIter", wk |-> writer, v |-> v, e |-> e],
      [op |-> "BrIfNone", wk |-> writer, v |-> v, off |-> Len(block) + 2]>>
    \o [j \in 1 .. Len(block) |->
           IF block[j].op = "Break"
           THEN [op |-> "BrIfNone", wk |-> block[j].wk, v |-> block[j].v, off |-> (Len(block) + 2) - j]
           ELSE block[j]]
    \o <<[op |-> "Jump", wk |-> writer, off |-> -(Len(block) + 1)]>>

fill_code(writer, st, side, d) ==
    [op |-> "Fill", wk |-> writer, w |-> WriterOf(writer, st), r |-> st.rscope, side |-> side,
     direction |-> d.direction, min_columns |-> d.min_columns, pad_char |-> d.pad_char]

RECURSIVE write_expressions(_, _, _, _)
RECURSIVE write_directive(_, _, _)
RECURSIVE choice_blocks(_, _, _, _)

\* The statements of each section of a Conditional.  The sections that are
\* modelled take no argument, so the argument after the selector is the
\* next one whichever section runs.
choice_blocks(st, sections, i, writer) ==
    IF i > Len(sections) THEN [ok |-> TRUE, blocks |-> <<>>, st |-> st]
    ELSE LET b == write_expressions(st, sections[i], 1, writer)
             rest == choice_blocks([b.st EXCEPT !.scope = st.scope, !.rscope = st.rscope], sections, i + 1, writer)
         IN IF ~b.ok THEN CompileError
            ELSE IF b.st.cursor # st.cursor THEN CompileError
            ELSE IF ~rest.ok THEN CompileError
            ELSE [ok |-> TRUE, blocks |-> <<b.code>> \o rest.blocks, st |-> rest.st]

\* Where the statements of block k start, counted from the Select: every
\* block before it is followed by one Jump.
RECURSIVE BlockStart(_, _)
BlockStart(blocks, k) == IF k = 1 THEN 1 ELSE BlockStart(blocks, k - 1) + Len(blocks[k - 1]) + 1

RECURSIVE select_blocks(_, _)
select_blocks(blocks, k) ==
    IF k > Len(blocks) THEN <<>>
    ELSE blocks[k]
         \o <<[op |-> "Jump", wk |-> "result",
               off |-> BlockStart(blocks, Len(blocks) + 1) - (BlockStart(blocks, k) + Len(blocks[k]))]>>
         \o select_blocks(blocks, k + 1)

\* Directive::Conditional, index and boolean form: the selector is the
\* next argument, then one section runs or none.
conditional_code(st, d, writer) ==
    LET x == NextExpression(st)
        sections == IF d.default.some THEN Append(d.choices, d.default.val) ELSE d.choices
        c == choice_blocks(x.st, sections, 1, writer)
    IN IF d.consumes THEN CompileError
       ELSE IF ~x.ok THEN CompileError
       ELSE IF ~c.ok THEN CompileError
       ELSE Emit(<<[op |-> "Select", wk |-> writer, e |-> x.e, boolean |-> d.boolean,
                    targets |-> [k \in 1 .. Len(d.choices) |-> BlockStart(c.blocks, k)],
                    other |-> IF d.default.some THEN BlockStart(c.blocks, Len(c.blocks))
                              ELSE BlockStart(c.blocks, Len(c.blocks) + 1)]>>
                 \o select_blocks(c.blocks, 1),
                 c.st)

\* One arm of the match in write_expressions, format_input.rs:117-314.
write_directive(st, d, writer) ==
    IF d.type \in {"TildeA", "TildeS"} THEN
        LET x == NextExpression(st)
        IN IF ~x.ok THEN CompileError
           ELSE Emit(<<[op |-> "Write", wk |-> writer, w |-> WriterOf(writer, st), how |-> d.type, e |-> x.e]>>, x.st)
    ELSE IF d.type = "Newline" THEN
        Emit(<<[op |-> "WriteStr", wk |-> writer, w |-> WriterOf(writer, st), text |-> <<"\n">>]>>, st)
    ELSE IF d.type = "Literal" THEN
        LET f == FormatLiteral(d.text)
        IN IF ~f.ok THEN CompileError
           ELSE Emit(<<[op |-> "WriteStr", wk |-> writer, w |-> WriterOf(writer, st), text |-> f.text]>>, st)
    ELSE IF d.type = "Skip" THEN skip_code(writer, st)
    ELSE IF d.type = "Iteration" THEN
        LET x == NextExpression(st)
            v == st.nv + 1
            block == write_expressions([x.st EXCEPT !.cursor = [kind |-> "iter", count |-> 0], !.scope = v, !.nv = v, !.inloop = TRUE], d.inner, 1, writer)
        IN IF ~x.ok THEN CompileError
           ELSE IF ~block.ok THEN CompileError
           ELSE Emit(loop_code(writer, v, x.e, block.code),
                     [x.st EXCEPT !.scope = v, !.nv = block.st.nv, !.nr = block.st.nr])
    ELSE IF d.type = "Break" THEN break_code(writer, st)
    ELSE IF d.type = "Decimal" THEN
        LET x == NextExpression(st)
        IN IF ~x.ok THEN CompileError
           ELSE Emit(<<[op |-> "DecimalNew", wk |-> writer, e |-> x.e, d |-> d],
                       [op |-> "DecimalWrite", wk |-> writer, w |-> WriterOf(writer, st)]>>, x.st)
    ELSE IF d.type = "Align" THEN
        LET r == st.nr + 1
            ruler_block == write_expressions([st EXCEPT !.nr = r, !.rscope = r], d.inner, 1, "ruler")
            writer_block == write_expressions([ruler_block.st EXCEPT !.cursor = st.cursor], d.inner, 1, writer)
        IN IF ~ruler_block.ok THEN CompileError
           ELSE IF ~writer_block.ok THEN CompileError
           ELSE Emit(<<[op |-> "RulerNew", wk |-> writer, r |-> r, v |-> st.scope]>>
                     \o ruler_block.code
                     \o <<fill_code(writer, ruler_block.st, "left", d)>>
                     \o writer_block.code
                     \o <<fill_code(writer, writer_block.st, "right", d)>>,
                     writer_block.st)
    ELSE IF d.type = "Conditional" THEN conditional_code(st, d, writer)
    ELSE CompileError

\* fn write_expressions: the statements for directives[i..], in order.
write_expressions(st, directives, i, writer) ==
    IF i > Len(directives) THEN Emit(<<>>, st)
    ELSE LET one == write_directive(st, directives[i], writer)
             rest == write_expressions(one.st, directives, i + 1, writer)
         IN IF ~one.ok THEN CompileError
            ELSE IF ~rest.ok THEN CompileError
            ELSE Emit(one.code \o rest.code, rest.st)

\* impl ToTokens for FormatInput: the statements of the whole call.
to_tokens(formatstr, nargs) ==
    write_expressions([cursor |-> [kind |-> "args", count |-> 0], nargs |-> nargs,
                       scope |-> 0, rscope |-> 0, nv |-> 0, nr |-> 0, inloop |-> FALSE],
                      formatstr, 1, "result")

(***************************************************************************)
(* The generated statements at run time.  A value is a string, an isize    *)
(* or a list of values ([t |-> "str" | "int" | "list"]).                   *)
(***************************************************************************)
StrVal(s) == [t |-> "str", s |-> s]
IntVal(n) == [t |-> "int", n |-> n]
ListVal(items) == [t |-> "list", items |-> items]
BoolVal(b) == [t |-> "bool", b |-> b]

\* str::len of one character: the bytes of its UTF-8 encoding.
Utf8Len(c) == IF c = "é" THEN 2 ELSE 1

RECURSIVE ByteLen(_)
ByteLen(text) == IF Len(text) = 0 THEN 0 ELSE Utf8Len(Head(text)) + ByteLen(Tail(text))

\* impl Display: a string is itself, an integer its base-10 digits after a
\* minus sign when negative.
Display(v) ==
    IF v.t = "str" THEN v.s
    ELSE IF v.n < 0 THEN <<"-">> \o Base10(-v.n) ELSE Base10(v.n)

RECURSIVE EscapeDebug(_)
EscapeDebug(text) ==
    IF Len(text) = 0 THEN <<>>
    ELSE (IF Head(text) \in {"\"", "\\"} THEN <<"\\", Head(text)>> ELSE <<Head(text)>>)
         \o EscapeDebug(Tail(text))

\* impl Debug: a string is escaped between double quotes.
Debug(v) == IF v.t = "str" THEN <<"\"">> \o EscapeDebug(v.s) \o <<"\"">> ELSE Display(v)

Repeat(c, n) == [i \in 1 .. n |-> c]

\* The statement at pc.
Statement == code[pc]

Running(op) == rstatus = "running" /\ pc \in 1 .. Len(code) /\ Statement.op = op

\* Evaluating an expression: an argument of the call, or
\* __formatcl_iteration.next().unwrap(), which panics on None.
Evaluate(e) ==
    IF e.src = "arg" THEN [ok |-> TRUE, val |-> args[e.idx], iters |-> iters]
    ELSE IF Len(iters[e.v]) = 0 THEN [ok |-> FALSE]
    ELSE [ok |-> TRUE, val |-> Head(iters[e.v]), iters |-> [iters EXCEPT ![e.v] = Tail(@)]]

\* write!(w, ..) of text: to the sink, or to a Ruler, which adds s.len().
WriteTo(w, text) ==
    IF w.k = "sink"
    THEN sink' = sink \o text /\ UNCHANGED rulers
    ELSE rulers' = [rulers EXCEPT ![w.r] = @ + ByteLen(text)] /\ UNCHANGED sink

\* The output holds at most MaxSink characters; a write that does not fit
\* returns Err.
MaxSink == 24

\* let r = write!(w, ..); if r.is_err() { .. }: the write succeeds and
\* control goes on to next, or the output takes some of the text and
\* returns Err.  A Ruler always returns Ok (ruler.rs:9-12).
Write(w, text, next) ==
    \/ /\ w.k = "sink" => Len(sink) + Len(text) <= MaxSink
       /\ WriteTo(w, text)
       /\ pc' = next
       /\ UNCHANGED <<rstatus, failed>>
    \/ /\ w.k = "sink"
       /\ \E n \in 0 .. Len(text) :
             /\ Len(sink) + n <= MaxSink
             /\ sink' = sink \o SubSeq(text, 1, n)
       /\ rstatus' = "sink_error"
       /\ failed' = TRUE
       /\ UNCHANGED <<rulers, pc>>

\* The history of the values the two passes of an Align have evaluated.
Record(wk, val) ==
    IF wk = "ruler" THEN [pass EXCEPT !.ruler = Append(@, val)]
    ELSE [pass EXCEPT !.writer = Append(@, val)]

Panic ==
    /\ rstatus' = "panic"
    /\ UNCHANGED <<iters, rulers, sink, pc, failed, pass>>

\* The macro expands at compile time: parse_format_string, then to_tokens.
Expand ==
    /\ rstatus = "call"
    /\ pstatus = "parsed"
    /\ LET t == IF presult.ok THEN to_tokens(presult.val, Len(args)) ELSE CompileError
       IN IF ~t.ok
          THEN /\ rstatus' = "compile_error"
               /\ UNCHANGED <<code, pc, iters, rulers>>
          ELSE /\ rstatus' = "running"
               /\ code' = t.code
               /\ pc' = 1
               /\ iters' = [v \in 1 .. t.st.nv |-> <<>>]
               /\ rulers' = [r \in 1 .. t.st.nr |-> 0]
    /\ UNCHANGED <<args, sink, failed, pass>>
    /\ UNCHANGED <<dvars, pvars>>

\* let r = write!(w, "{}" or "{:?}", e);
StepWrite ==
    /\ Running("Write")
    /\ LET x == Evaluate(Statement.e)
       IN IF ~x.ok THEN Panic
          ELSE /\ Write(Statement.w, IF Statement.how = "TildeS" THEN Debug(x.val) ELSE Display(x.val), pc + 1)
               /\ iters' = x.iters
               /\ pass' = Record(Statement.wk, x.val)
    /\ UNCHANGED <<args, code>>
    /\ UNCHANGED <<dvars, pvars>>

\* let r = write!(w, literal);
StepWriteStr ==
    /\ Running("WriteStr")
    /\ Write(Statement.w, Statement.text, pc + 1)
    /\ UNCHANGED <<args, code, iters, pass>>
    /\ UNCHANGED <<dvars, pvars>>

\* let _ = e;
StepEval ==
    /\ Running("Eval")
    /\ LET x == Evaluate(Statement.e)
       IN IF ~x.ok THEN Panic
          ELSE /\ iters' = x.iters
               /\ pass' = Record(Statement.wk, x.val)
               /\ pc' = pc + 1
               /\ UNCHANGED <<rulers, sink, rstatus, failed>>
    /\ UNCHANGED <<args, code>>
    /\ UNCHANGED <<dvars, pvars>>

\* let mut __formatcl_iteration = e.into_iter().peekable();
StepLetIter ==
    /\ Running("LetIter")
    /\ LET x == Evaluate(Statement.e)
       IN IF ~x.ok THEN Panic
          ELSE /\ iters' = [x.iters EXCEPT ![Statement.v] = x.val.items]
               /\ pass' = Record(Statement.wk, x.val)
               /\ pc' = pc + 1
               /\ UNCHANGED <<rulers, sink, rstatus, failed>>
    /\ UNCHANGED <<args, code>>
    /\ UNCHANGED <<dvars, pvars>>

\* if __formatcl_iteration.peek().is_none() { break; }
StepBrIfNone ==
    /\ Running("BrIfNone")
    /\ pc' = IF Len(iters[Statement.v]) = 0 THEN pc + Statement.off ELSE pc + 1
    /\ UNCHANGED <<args, code, iters, rulers, sink, rstatus, failed, pass>>
    /\ UNCHANGED <<dvars, pvars>>

\* The end of the body of `loop`.
StepJump ==
    /\ Running("Jump")
    /\ pc' = pc + Statement.off
    /\ UNCHANGED <<args, code, iters, rulers, sink, rstatus, failed, pass>>
    /\ UNCHANGED <<dvars, pvars>>

\* The section a boolean selector takes, from 1: tests::boolean_conditional
\* expects the first section for true and the second for false.
boolean_choice(b) == IF b THEN 1 ELSE 2

\* An index selector counted from 1.
index_choice_from_one(i, n) == IF 1 <= i /\ i <= n THEN i ELSE 0

\* The section an index selector takes, from 1, or 0 for none of them.
index_choice(i, n) == IF 0 <= i /\ i < n THEN i + 1 ELSE 0

\* A Conditional: the selector is evaluated once and control goes to the
\* section it selects, to the default, or past the Conditional.
StepSelect ==
    /\ Running("Select")
    /\ LET x == Evaluate(Statement.e)
           k == IF Statement.boolean THEN boolean_choice(x.val.b)
                ELSE index_choice(x.val.n, Len(Statement.targets))
       IN IF ~x.ok THEN Panic
          ELSE /\ iters' = x.iters
               /\ pass' = Record(Statement.wk, x.val)
               /\ pc' = pc + (IF k = 0 THEN Statement.other ELSE Statement.targets[k])
               /\ UNCHANGED <<rulers, sink, rstatus, failed>>
    /\ UNCHANGED <<args, code>>
    /\ UNCHANGED <<dvars, pvars>>

\* Decimal::new(min_columns, pad_char, comma_char, comma_interval,
\*              print_commas, print_sign, e)
StepDecimalNew ==
    /\ Running("DecimalNew")
    /\ LET x == Evaluate(Statement.e)
           d == Statement.d
           r == DecimalNew(overflow_checks, d.min_columns, d.pad_char, d.comma_char,
                           d.comma_interval, d.print_commas, d.print_sign, x.val.n)
       IN IF ~x.ok THEN Panic /\ UNCHANGED decimal
          ELSE IF r.panic THEN Panic /\ UNCHANGED decimal
          ELSE /\ decimal' = r.self
               /\ iters' = x.iters
               /\ pass' = Record(Statement.wk, x.val)
               /\ pc' = pc + 1
               /\ UNCHANGED <<rulers, sink, rstatus, failed>>
    /\ UNCHANGED <<args, code>>
    /\ UNCHANGED <<overflow_checks, dargs, dstatus, dout>>
    /\ UNCHANGED pvars

\* for __formatcl_c in <the Decimal> { write!(w, "{}", __formatcl_c) }
StepDecimalWrite ==
    /\ Running("DecimalWrite")
    /\ LET r == DecimalNext(decimal)
       IN /\ decimal' = r.self
          /\ IF r.item = None
             THEN pc' = pc + 1 /\ UNCHANGED <<rulers, sink, rstatus, failed>>
             ELSE Write(Statement.w, <<r.item>>, pc)
    /\ UNCHANGED <<args, code, iters, pass>>
    /\ UNCHANGED <<overflow_checks, dargs, dstatus, dout>>
    /\ UNCHANGED pvars

\* let mut __formatcl_ruler = Ruler::default();
StepRulerNew ==
    /\ Running("RulerNew")
    /\ rulers' = [rulers EXCEPT ![Statement.r] = 0]
    /\ pass' = [ruler |-> <<>>, writer |-> <<>>, mark |-> iters]
    /\ pc' = pc + 1
    /\ UNCHANGED <<args, code, iters, sink, rstatus, failed>>
    /\ UNCHANGED <<dvars, pvars>>

\* The width of left_fill or right_fill, format_input.rs:264-302.
FillWidth(side, direction, min_columns, length) ==
    IF ~(min_columns > length) THEN 0
    ELSE IF direction = AlignCentre THEN (min_columns - length) \div 2
    ELSE IF direction = AlignRight /\ side = "left" THEN min_columns - length
    ELSE IF direction = AlignLeft /\ side = "right" THEN min_columns - length
    ELSE 0

\* if min_columns > ruler.length() { let r = write!(w, fill, "", width = ..); .. }
StepFill ==
    /\ Running("Fill")
    /\ IF Statement.min_columns > rulers[Statement.r]
       THEN Write(Statement.w,
                  Repeat(Statement.pad_char,
                         FillWidth(Statement.side, Statement.direction, Statement.min_columns, rulers[Statement.r])),
                  pc + 1)
       ELSE pc' = pc + 1 /\ UNCHANGED <<rulers, sink, rstatus, failed>>
    /\ UNCHANGED <<args, code, iters, pass>>
    /\ UNCHANGED <<dvars, pvars>>

\* break '__format_cl__loop Ok(()), and the call yields the result.
Finish ==
    /\ rstatus = "running"
    /\ pc = Len(code) + 1
    /\ rstatus' = "done"
    /\ UNCHANGED <<args, code, pc, iters, rulers, sink, failed, pass>>
    /\ UNCHANGED <<dvars, pvars>>

\* A `break '__format_cl__loop r` that leaves only the innermost loop: the
\* statements after it go on.
break_format_loop_inner == [rstatus |-> "running", pc |-> pc + 1]

\* if r.is_err() { break '__format_cl__loop r; }: control leaves the labelled
\* loop around all the statements and __formatcl_err is the error.
break_format_loop == [rstatus |-> "err", pc |-> Len(code) + 1]

BreakWithError ==
    /\ rstatus = "sink_error"
    /\ rstatus' = break_format_loop.rstatus
    /\ pc' = break_format_loop.pc
    /\ UNCHANGED <<args, code, iters, rulers, sink, failed, pass>>
    /\ UNCHANGED <<dvars, pvars>>

\* if __formatcl_err.is_err() { panic!("oh no"); }
OhNo ==
    /\ rstatus = "err"
    /\ rstatus' = "oh_no"
    /\ UNCHANGED <<args, code, pc, iters, rulers, sink, failed, pass>>
    /\ UNCHANGED <<dvars, pvars>>

(***************************************************************************)
(* The calls that are rendered: a control string, written as its pieces,   *)
(* with the arguments that go with it.                                     *)
(***************************************************************************)
MaxLiteral == 4
MaxElems == 4
MaxWidth == 5

TildeA == <<"~", "A">>
TildeS == <<"~", "S">>
TildeSkip == <<"~", "*">>
IterOpen == <<"~", "{">>
IterClose == <<"~", "}">>
AlignClose == <<"~", ">">>

Call(ps, as) == [pieces |-> ps, args |-> as]

\* Control strings without a directive, no arguments.
LiteralCalls ==
    { Call([i \in 1 .. Len(s) |-> <<s[i]>>], <<>>) : s \in SeqsUpTo({"a", "{", "}"}, MaxLiteral) }

Separators == { <<",", " ">>, <<"-">> }
Elems == { StrVal(<<"x">>), StrVal(<<"y", "z">>) }
Lists == { ListVal(items) : items \in SeqsUpTo(Elems, MaxElems) }

\* ~{~A~^SEP~} and other iteration bodies over one list.
IterationBodies ==
    { <<TildeA, BreakToken, sep>> : sep \in Separators }
    \cup { <<TildeA, sep>> : sep \in Separators }
    \cup { <<TildeA, TildeSkip, BreakToken, sep>> : sep \in Separators }
    \cup { <<TildeA>>, <<TildeSkip, TildeA>>, <<TildeA, TildeS>> }
    \cup { <<TildeA, <<"~", "%">> >> }

\* Bodies that take no element in a pass, or only after a Break.
IdleBodies == { <<>>, << <<"a">> >>, << <<"~", "%">> >>, <<BreakToken, TildeA>> }

IterationCalls ==
    { Call(<<IterOpen>> \o body \o <<IterClose>>, <<l>>) : body \in IterationBodies \cup IdleBodies, l \in Lists }

ModifierTexts == { <<>>, <<":">>, <<"@">>, <<":", "@">> }

AlignOpen(m, p, mods) ==
    <<"~">> \o Base10(m) \o (IF p = " " THEN <<>> ELSE <<",", ",", ",", "'", p>>) \o mods \o <<"<">>

AlignOpens == { AlignOpen(m, p, mods) : m \in 0 .. MaxWidth, p \in {" ", "-"}, mods \in ModifierTexts }

Texts == { StrVal(<<>>), StrVal(<<"x">>), StrVal(<<"y", "z">>), StrVal(<<"x", "é", "z">>) }

\* ~m,,,'pMODS<~A~> over one string, and with some text of its own.
AlignCalls ==
    { Call(<<open, TildeA, AlignClose>>, <<t>>) : open \in AlignOpens, t \in Texts }
    \cup { Call(<<open, TildeA, <<"a">>, TildeS, AlignClose>>, <<t, t>>) : open \in AlignOpens, t \in {StrVal(<<"x">>)} }

\* An Align in the body of an Iteration: ~{~m<~A~>~} and ~{~m<~A~>~^SEP~}.
AlignInIterationCalls ==
    { Call(<<IterOpen, AlignOpen(m, "-", mods), TildeA, AlignClose>> \o rest \o <<IterClose>>, <<l>>) :
        m \in {0, 3}, mods \in ModifierTexts, rest \in {<<>>, <<BreakToken, <<",">> >>}, l \in Lists }

DecimalPieces == { <<"~", "D">>, <<"~", ":", "D">>, <<"~", "4", ",", "'", "0", "@", "D">> }
DecimalValues == { IntVal(n) : n \in {IsizeMin, -12, 0, 7, 100} }

DecimalCalls == { Call(<<d>>, <<n>>) : d \in DecimalPieces, n \in DecimalValues }

SectionSep == <<"~", ";">>
DefaultSep == <<"~", ":", ";">>
CondClose == <<"~", "]">>

IndexChoices == << <<"~", "[">>, <<"z">>, SectionSep, <<"p">>, SectionSep, <<"n">> >>
Selectors == { IntVal(i) : i \in {-1, 0, 1, 2, 3, 100} }

\* ~[z~;p~;n~:;g~] and ~[z~;p~;n~] over one integer, alone or followed by ~A
\* and its argument; ~:[n~;z~] over one boolean.
ConditionalCalls ==
    { Call(IndexChoices \o last \o <<CondClose>> \o after.pieces, <<i>> \o after.args) :
        last \in { <<>>, <<DefaultSep, <<"g">> >> },
        i \in Selectors,
        after \in { Call(<<>>, <<>>), Call(<<TildeA>>, <<StrVal(<<"d">>)>>) } }
    \cup { Call(<< <<"~", ":", "[">>, <<"n">>, SectionSep, <<"z">>, CondClose >> \o after.pieces, <<BoolVal(b)>> \o after.args) :
        b \in BOOLEAN,
        after \in { Call(<<>>, <<>>), Call(<<TildeA>>, <<StrVal(<<"d">>)>>) } }

\* ~*~A and ~A~*~A over arguments of their own.
SkipCalls ==
    { Call(<<TildeSkip, TildeA>>, <<t, u>>) : t \in Texts, u \in Texts }
    \cup { Call(<<TildeA, TildeSkip, TildeA>>, <<t, u, StrVal(<<"w">>)>>) : t \in Texts, u \in Texts }

MaxNested == 2

\* ~{~{~A~}~^SEP~} and ~{~{~A~}~A~} over a list of lists.
NestedLists == { ListVal(outer) : outer \in SeqsUpTo({ ListVal(inner) : inner \in SeqsUpTo(Elems, MaxNested) }, MaxNested) }

NestedBodies == { <<IterOpen, TildeA, IterClose, BreakToken, sep>> : sep \in Separators }
                \cup { <<IterOpen, TildeA, IterClose, TildeA>> }

NestedCalls ==
    { Call(<<IterOpen>> \o body \o <<IterClose>>, <<l>>) : body \in NestedBodies, l \in NestedLists }

RenderCalls ==
    LiteralCalls \cup IterationCalls \cup AlignCalls \cup AlignInIterationCalls \cup DecimalCalls
    \cup ConditionalCalls \cup SkipCalls \cup NestedCalls

RenderInit ==
    /\ \E c \in RenderCalls :
          /\ pieces = c.pieces
          /\ args = c.args
    /\ control = Flatten(pieces)
    /\ pstatus = "input"
    /\ presult = NotParsed
    /\ overflow_checks \in BOOLEAN
    /\ dargs = [number |-> 0]
    /\ decimal = NoDecimal
    /\ dstatus = "idle"
    /\ dout = <<>>
    /\ code = <<>>
    /\ pc = 0
    /\ iters = <<>>
    /\ rulers = <<>>
    /\ sink = <<>>
    /\ rstatus = "call"
    /\ failed = FALSE
    /\ pass = NoPass

RenderNext ==
    \/ ParseString
    \/ Expand
    \/ StepWrite
    \/ StepWriteStr
    \/ StepEval
    \/ StepLetIter
    \/ StepBrIfNone
    \/ StepJump
    \/ StepSelect
    \/ StepDecimalNew
    \/ StepDecimalWrite
    \/ StepRulerNew
    \/ StepFill
    \/ Finish
    \/ BreakWithError
    \/ OhNo

SpecRender == RenderInit /\ [][RenderNext]_vars

\* A step of the generated code.
RunNext ==
    \/ StepWrite
    \/ StepWriteStr
    \/ StepEval
    \/ StepLetIter
    \/ StepBrIfNone
    \/ StepJump
    \/ StepSelect
    \/ StepDecimalNew
    \/ StepDecimalWrite
    \/ StepRulerNew
    \/ StepFill
    \/ Finish
    \/ BreakWithError
    \/ OhNo

\* The generated statements run one after the other without pause.
SpecRenderLive == RenderInit /\ [][RenderNext]_vars /\ WF_vars(RunNext)

(***************************************************************************)
(* Properties of rendering, checked under SpecRender.                      *)
(***************************************************************************)
Terminated == rstatus \in {"done", "panic", "compile_error"}

\* C1: a control string without `~`, braces included, rendered with no
\* arguments, is written to the sink character for character.
C1_LiteralVerbatim ==
    (~Has(control, "~") /\ args = <<>> /\ Terminated)
    => (rstatus = "done" /\ sink = control)

RECURSIVE Joined(_, _)
Joined(items, sep) ==
    IF Len(items) = 0 THEN <<>>
    ELSE IF Len(items) = 1 THEN Display(items[1])
    ELSE Display(items[1]) \o sep \o Joined(Tail(items), sep)

SeparatedIteration == \E sep \in Separators : pieces = <<IterOpen, TildeA, BreakToken, sep, IterClose>>

\* C5: ~{~A~^SEP~} over n elements writes the elements in order with SEP
\* between them and not after the last, and nothing for n = 0; the break
\* leaves the loop when no element remains and otherwise only moves on to
\* the next statement.
C5_BreakSeparates ==
    /\ [](SeparatedIteration /\ Terminated
          => rstatus = "done" /\ sink = Joined(args[1].items, pieces[4]))
    /\ [][(SeparatedIteration /\ Running("BrIfNone") /\ pc > 2)
          => /\ pc' = IF Len(iters[1]) = 0 THEN Len(code) + 1 ELSE pc + 1
             /\ UNCHANGED <<iters, sink, rstatus>>]_vars

\* Three elements were written with a separator between them.
C5_Witness ==
    /\ SeparatedIteration
    /\ rstatus = "done"
    /\ Len(args[1].items) = 3
    /\ sink = Joined(args[1].items, pieces[4])
    /\ Len(sink) > Len(Joined(args[1].items, <<>>))

\* C6: when the rendering pass of an Align is over, it has evaluated the
\* values the measuring pass evaluated, and the iteration source the Align
\* reads from has lost as many elements as one pass evaluates.
C6_MeasuringKeepsCursor ==
    (Running("Fill") /\ Statement.side = "right")
    => /\ pass.ruler = pass.writer
       /\ \A v \in DOMAIN iters : Len(pass.mark[v]) - Len(iters[v]) = Len(pass.writer)

AlignedText ==
    /\ Parsed
    /\ presult.ok
    /\ Len(presult.val) = 1
    /\ presult.val[1].type = "Align"
    /\ presult.val[1].inner = <<[type |-> "TildeA"]>>

\* C7: an Align of min_columns m and pad_char p around a text of measured
\* length L writes max(0, m - L) pad characters: Left after the text, Right
\* before it, Centre half of them rounded down before and the rest after.
C7_AlignPadding ==
    (AlignedText /\ rstatus = "done")
    => LET d == presult.val[1]
           n == Max(0, d.min_columns - rulers[1])
           before == IF d.direction = AlignRight THEN n
                     ELSE IF d.direction = AlignCentre THEN n \div 2
                     ELSE 0
       IN sink = Repeat(d.pad_char, before) \o Display(args[1]) \o Repeat(d.pad_char, n - before)

\* The call is ~[z~;p~;n ... over an integer selector.
IndexConditional ==
    /\ Len(pieces) > Len(IndexChoices)
    /\ SubSeq(pieces, 1, Len(IndexChoices)) = IndexChoices

\* What the directives after the conditional write: the argument of ~A.
AfterConditional == IF pieces[Len(pieces)] = TildeA THEN Display(args[2]) ELSE <<>>

\* C14: an index-form Conditional takes one integer argument i and runs
\* choice i when 0 <= i < n, the default when i is outside and there is a
\* default, nothing otherwise; the argument after the selector goes to the
\* directive after the conditional.
C14_IndexConditional ==
    (IndexConditional /\ Terminated)
    => /\ rstatus = "done"
       /\ sink = (LET i == args[1].n
                  IN IF i = 0 THEN <<"z">>
                     ELSE IF i = 1 THEN <<"p">>
                     ELSE IF i = 2 THEN <<"n">>
                     ELSE IF pieces[Len(IndexChoices) + 1] = DefaultSep THEN <<"g">>
                     ELSE <<>>)
                 \o AfterConditional

\* Selector 100 ran the default and ~A wrote the argument after it.
C14_Witness ==
    /\ IndexConditional
    /\ rstatus = "done"
    /\ args[1].n = 100
    /\ sink = <<"g", "d">>

BooleanConditional == Len(pieces) >= 1 /\ pieces[1] = <<"~", ":", "[">>

\* C15: ~:[n~;z~] takes one boolean argument and writes the first section
\* for false, the second for true; the argument after it goes to the
\* directive after the conditional.
C15_BooleanConditional ==
    (BooleanConditional /\ Terminated)
    => /\ rstatus = "done"
       /\ sink = (IF args[1].b THEN <<"z">> ELSE <<"n">>) \o AfterConditional

\* The elements of items at the positions 0, 2, 4, ...
RECURSIVE EveryOther(_)
EveryOther(items) ==
    IF Len(items) = 0 THEN <<>>
    ELSE IF Len(items) = 1 THEN items
    ELSE <<items[1]>> \o EveryOther(Tail(Tail(items)))

SkipIteration == \E sep \in Separators : pieces = <<IterOpen, TildeA, TildeSkip, BreakToken, sep, IterClose>>

\* C16: a Skip writes nothing and takes exactly one argument, or one
\* element of the iteration source inside an Iteration; so ~{~A~*~^SEP~}
\* over a sequence of even length writes the elements at the positions 0,
\* 2, ... with SEP between them and not after the last, and ~*~A writes the
\* second argument.
C16_SkipDiscards ==
    /\ []((SkipIteration /\ Len(args[1].items) % 2 = 0 /\ Terminated)
          => rstatus = "done" /\ sink = Joined(EveryOther(args[1].items), pieces[5]))
    /\ []((pieces = <<TildeSkip, TildeA>> /\ Terminated)
          => rstatus = "done" /\ sink = Display(args[2]))
    /\ [][(Running("Eval") /\ rstatus' = "running")
          => /\ UNCHANGED <<sink, rulers, args>>
             /\ pc' = pc + 1
             /\ \A v \in DOMAIN iters :
                   iters'[v] = IF Statement.e.src = "iter" /\ Statement.e.v = v THEN Tail(iters[v]) ELSE iters[v]]_vars

\* Four elements were iterated and the first and the third written.
C16_Witness ==
    /\ SkipIteration
    /\ rstatus = "done"
    /\ Len(args[1].items) = 4
    /\ sink = Display(args[1].items[1]) \o pieces[5] \o Display(args[1].items[3])

\* C17: once a write to the output has returned Err no statement writes
\* to it again, in an Iteration body, a Decimal digit loop and an Align
\* alike; the call does not end normally but with panic!("oh no"); what
\* the output held when the write was made is still its beginning.
C17_FailFast ==
    /\ [][failed => sink' = sink]_vars
    /\ [](failed => rstatus \in {"sink_error", "err", "oh_no"})
    /\ [][(rstatus = "running" /\ failed')
          => Len(sink) <= Len(sink') /\ SubSeq(sink', 1, Len(sink)) = sink]_vars

\* A write failed in the body of an Iteration after the first element was
\* written, with elements still to come, and the call panicked.
C17_Witness ==
    /\ rstatus = "oh_no"
    /\ failed
    /\ Len(pieces) > 0 /\ pieces[1] = IterOpen
    /\ Len(sink) > 0
    /\ Len(iters[1]) > 0

\* The statement the call stopped at takes an element of an iteration
\* source that has none left.
ArgumentMissing ==
    /\ pc \in 1 .. Len(code)
    /\ "e" \in DOMAIN Statement
    /\ ~Evaluate(Statement.e).ok

\* C18: a call that reaches a directive taking an argument when none is
\* left, among the elements of an Iteration's sequence too, ends by
\* returning a MissingArgument error and never by a panic.
C18_MissingArgument ==
    (Terminated /\ ArgumentMissing) => rstatus = "MissingArgument"

IterationCall == Len(pieces) > 0 /\ pieces[1] = IterOpen /\ pieces[Len(pieces)] = IterClose

Ended == rstatus \in {"done", "panic", "oh_no"}

\* C21: a call that iterates over a finite sequence ends, whatever the
\* body, one that takes no element in a pass included, and writes nothing
\* when the sequence is empty.
C21_IterationTerminates ==
    /\ (IterationCall /\ rstatus = "running") ~> Ended
    /\ []((IterationCall /\ rstatus = "done" /\ args[1].items = <<>>) => sink = <<>>)

\* C22: when an Align around ~A has measured its text, the length of the
\* Ruler is the number of characters of that text, non-ASCII characters
\* counting one each like the others.
C22_RulerCountsCharacters ==
    (AlignedText /\ rstatus = "done") => rulers[1] = Len(Display(args[1]))

(***************************************************************************)
(* The sections of a conditional, read off the pieces it is written with.  *)
(***************************************************************************)
\* The control string is one conditional of literal text and separators,
\* closed by its only ~].
ClosedConditional ==
    /\ Len(pieces) >= 2
    /\ pieces[1] \in CondHeads
    /\ pieces[Len(pieces)] = CondClose
    /\ \A i \in 2 .. (Len(pieces) - 1) : pieces[i] \in {<<"a">>, SectionSep, DefaultSep}

\* The place of the first ~:; among the pieces, 0 when there is none.
FirstDefault ==
    IF \A i \in 1 .. Len(pieces) : pieces[i] # DefaultSep THEN 0
    ELSE CHOOSE i \in 1 .. Len(pieces) :
            pieces[i] = DefaultSep /\ \A j \in 1 .. (i - 1) : pieces[j] # DefaultSep

\* The sections that ~; separates in ts, empty ones included.
RECURSIVE Sections(_)
Sections(ts) ==
    IF \A i \in 1 .. Len(ts) : ts[i] # SectionSep THEN <<ts>>
    ELSE LET k == CHOOSE i \in 1 .. Len(ts) : ts[i] = SectionSep /\ \A j \in 1 .. (i - 1) : ts[j] # SectionSep
         IN <<SubSeq(ts, 1, k - 1)>> \o Sections(SubSeq(ts, k + 1, Len(ts)))

\* The directives written in a section of literal text.
SectionDirectives(ts) ==
    IF Len(ts) = 0 THEN <<>> ELSE <<[type |-> "Literal", text |-> Flatten(ts)]>>

Choices(ts) == [k \in 1 .. Len(Sections(ts)) |-> SectionDirectives(Sections(ts)[k])]

\* C24: a conditional with a section separator, ~; or ~:;, after its ~:;
\* does not parse; a ~[ conditional with ~:; and no separator after it
\* parses to the sections before ~:; as choices, in order, and the section
\* after it as default.
C24_DefaultIsLast ==
    (Parsed /\ ClosedConditional /\ FirstDefault > 0)
    => IF \E j \in (FirstDefault + 1) .. Len(pieces) : pieces[j] \in {SectionSep, DefaultSep}
       THEN ~presult.ok
       ELSE pieces[1] = <<"~", "[">>
            => /\ presult.ok
               /\ presult.val = << [type |-> "Conditional",
                                    boolean |-> FALSE,
                                    consumes |-> FALSE,
                                    choices |-> Choices(SubSeq(pieces, 2, FirstDefault - 1)),
                                    default |-> SomeDefault(SectionDirectives(SubSeq(pieces, FirstDefault + 1, Len(pieces) - 1)))] >>

\* C25: a ~[ conditional without ~:; parses to one choice for each section,
\* the separators plus one, each holding the directives written in it, an
\* empty first, middle or last section included.
C25_ChoicePerSection ==
    (Parsed /\ ClosedConditional /\ FirstDefault = 0 /\ pieces[1] = <<"~", "[">>)
    => /\ presult.ok
       /\ presult.val = << [type |-> "Conditional",
                            boolean |-> FALSE,
                            consumes |-> FALSE,
                            choices |-> Choices(SubSeq(pieces, 2, Len(pieces) - 1)),
                            default |-> NoDefault] >>

\* The call is ~{~{~A~}~^SEP~}.
NestedSeparated ==
    \E sep \in Separators : pieces = <<IterOpen, IterOpen, TildeA, IterClose, BreakToken, sep, IterClose>>

\* The elements of a sequence written one after the other.
RECURSIVE Concatenated(_)
Concatenated(items) ==
    IF Len(items) = 0 THEN <<>> ELSE Display(items[1]) \o Concatenated(Tail(items))

\* The inner sequences written with sep between them.
RECURSIVE JoinedInner(_, _)
JoinedInner(lists, sep) ==
    IF Len(lists) = 0 THEN <<>>
    ELSE IF Len(lists) = 1 THEN Concatenated(lists[1].items)
    ELSE Concatenated(lists[1].items) \o sep \o JoinedInner(Tail(lists), sep)

\* C28: after an inner Iteration has finished, the Break that follows it in
\* the outer body tests the outer sequence: ~{~{~A~}~^SEP~} over m inner
\* sequences writes all m of them with SEP between them.
C28_NestedIteration ==
    (NestedSeparated /\ Terminated)
    => /\ rstatus = "done"
       /\ sink = JoinedInner(args[1].items, pieces[6])

====
